---- MODULE Spec2Model ----
(***************************************************************************)
(* Model of the LobSec SDK (src/lobsec): the unit conversions of           *)
(* InsurancePool, the registry status derivation, the premium quote and    *)
(* the approve-then-act transaction flows, against an external ledger.     *)
(*                                                                         *)
(* Python's int is unbounded and its float is an IEEE-754 binary64, while  *)
(* the model checker's integers are 32 bits wide.  Ledger values are       *)
(* therefore kept as arbitrary-precision naturals (little-endian sequences *)
(* of base-10^4 limbs) and floats as a 53-bit mantissa with a binary       *)
(* exponent, so that every conversion rounds exactly as the code's does.   *)
(***************************************************************************)
EXTENDS Integers, Sequences, FiniteSets, TLC

(***************************************************************************)
(* An intermediate value that is used several times is passed on as an     *)
(* operator argument, or bound as the element of a singleton set           *)
(* (CHOOSE r \in {F(v) : v \in {E}} : TRUE is F(E), with E evaluated        *)
(* first and once).                                                        *)
(***************************************************************************)

(***************************************************************************)
(* Arbitrary-precision naturals: Python int (non-negative part).           *)
(* <<>> is zero; the last limb of a non-zero number is non-zero.           *)
(***************************************************************************)
Limb == 10 ^ 4

RECURSIVE NNorm(_)
NNorm(a) ==
  IF a = <<>> THEN <<>>
  ELSE IF a[Len(a)] = 0 THEN NNorm(SubSeq(a, 1, Len(a) - 1))
  ELSE a

RECURSIVE NFromInt(_)
NFromInt(n) ==
  IF n = 0 THEN <<>> ELSE <<n % Limb>> \o NFromInt(n \div Limb)

RECURSIVE NAddFrom(_, _, _, _)
NAddFrom(a, b, i, c) ==
  IF i > Len(a) /\ i > Len(b)
  THEN (IF c = 0 THEN <<>> ELSE <<c>>)
  ELSE LET x == (IF i <= Len(a) THEN a[i] ELSE 0)
                + (IF i <= Len(b) THEN b[i] ELSE 0) + c
       IN  <<x % Limb>> \o NAddFrom(a, b, i + 1, x \div Limb)

NAdd(a, b) == NAddFrom(a, b, 1, 0)

\* a - b for a >= b
RECURSIVE NSubFrom(_, _, _, _)
NSubFrom(a, b, i, c) ==
  IF i > Len(a) THEN <<>>
  ELSE LET x == a[i] - (IF i <= Len(b) THEN b[i] ELSE 0) - c
       IN  IF x < 0
           THEN <<x + Limb>> \o NSubFrom(a, b, i + 1, 1)
           ELSE <<x>> \o NSubFrom(a, b, i + 1, 0)

NSub(a, b) == NNorm(NSubFrom(a, b, 1, 0))

\* comparison of the limbs i..1, most significant first, equal lengths
RECURSIVE NCmpFrom(_, _, _)
NCmpFrom(a, b, i) ==
  IF i = 0 THEN 0
  ELSE IF a[i] < b[i] THEN -1
  ELSE IF a[i] > b[i] THEN 1
  ELSE NCmpFrom(a, b, i - 1)

\* -1, 0, 1 as a < b, a = b, a > b
NCmp(a, b) ==
  IF Len(a) < Len(b) THEN -1
  ELSE IF Len(a) > Len(b) THEN 1
  ELSE NCmpFrom(a, b, Len(a))

NLt(a, b) == NCmp(a, b) < 0
NLe(a, b) == NCmp(a, b) <= 0

\* a * k for a small factor 0 <= k <= 10^5
RECURSIVE NMulFrom(_, _, _, _)
NMulFrom(a, k, i, c) ==
  IF i > Len(a)
  THEN NFromInt(c)
  ELSE LET x == a[i] * k + c
       IN  <<x % Limb>> \o NMulFrom(a, k, i + 1, x \div Limb)

NMulSmall(a, k) == IF k = 0 THEN <<>> ELSE NMulFrom(a, k, 1, 0)

\* a divided by a small divisor 0 < k <= 10^5: quotient q and remainder r
RECURSIVE NDivFrom(_, _, _, _)
NDivFrom(a, k, i, r) ==
  IF i = 0 THEN [q |-> <<>>, r |-> r]
  ELSE LET cur  == r * Limb + a[i]
           rest == NDivFrom(a, k, i - 1, cur % k)
       IN  [q |-> rest.q \o <<cur \div k>>, r |-> rest.r]

NDivSmall(a, k) ==
  LET d == NDivFrom(a, k, Len(a), 0) IN [q |-> NNorm(d.q), r |-> d.r]

NIsOdd(a) == a /= <<>> /\ a[1] % 2 = 1

\* a * 2^j and a * 10^j
RECURSIVE NMulPow2(_, _)
NMulPow2(a, j) ==
  IF j = 0 \/ a = <<>> THEN a
  ELSE IF j >= 13 THEN NMulPow2(NMulSmall(a, 8192), j - 13)
  ELSE NMulPow2(NMulSmall(a, 2), j - 1)

RECURSIVE NMulPow10(_, _)
NMulPow10(a, j) ==
  IF j = 0 \/ a = <<>> THEN a
  ELSE IF j >= 4 THEN NMulPow10(<<0>> \o a, j - 4)
  ELSE NMulPow10(NMulSmall(a, 10), j - 1)

\* floor(a / 10^j)
RECURSIVE NDivPow10(_, _)
NDivPow10(a, j) ==
  IF j = 0 \/ a = <<>> THEN a
  ELSE IF j >= 4 THEN NDivPow10(Tail(a), j - 4)
  ELSE NDivPow10(NDivSmall(a, 10).q, j - 1)

\* one base-256 digit of a long division: d plus the largest e < 2 * k
\* with e * b <= r, for k = 128, 64, ..., 1, and the remainder left
RECURSIVE NDivDigit(_, _, _, _)
NDivDigit(r, b, k, d) ==
  IF k = 0 THEN [r |-> r, d |-> d]
  ELSE IF NLe(NMulSmall(b, k), r)
  THEN NDivDigit(NSub(r, NMulSmall(b, k)), b, k \div 2, d + k)
  ELSE NDivDigit(r, b, k \div 2, d)

NDivAppend(h, x) == [q |-> NAdd(NMulSmall(h.q, 256), NFromInt(x.d)), r |-> x.r]

NDivStep(h, b) ==
  CHOOSE y \in {NDivAppend(h, x) : x \in {NDivDigit(h.r, b, 128, 0)}} : TRUE

\* floor(a / b) and a mod b for b > 0, by long division in base 256
RECURSIVE NDivMod(_, _)
NDivMod(a, b) ==
  IF NLt(a, b) THEN [q |-> <<>>, r |-> a]
  ELSE CHOOSE y \in {NDivStep(h, b) : h \in {NDivMod(a, NMulSmall(b, 256))}} : TRUE

\* number of decimal digits of a (0 for zero)
NDigits(a) ==
  IF a = <<>> THEN 0
  ELSE LET top == a[Len(a)]
       IN  4 * (Len(a) - 1)
           + (IF top >= 1000 THEN 4 ELSE IF top >= 100 THEN 3
              ELSE IF top >= 10 THEN 2 ELSE 1)

\* a * b
RECURSIVE NMulAcc(_, _, _)
NMulAcc(a, b, i) ==
  IF i > Len(b) THEN <<>>
  ELSE NAdd(NMulSmall(a, b[i]), <<0>> \o NMulAcc(a, b, i + 1))

NMul(a, b) == IF a = <<>> \/ b = <<>> THEN <<>> ELSE NNorm(NMulAcc(a, b, 1))

\* |a - b|
NDist(a, b) == IF NLt(a, b) THEN NSub(b, a) ELSE NSub(a, b)

\* floor(a / b) rounded to the nearest integer, ties to even
NRoundHalfEven(d, tw) ==
  IF tw > 0 \/ (tw = 0 /\ NIsOdd(d.q)) THEN NAdd(d.q, <<1>>) ELSE d.q

NDivRound(d, b) == NRoundHalfEven(d, NCmp(NMulSmall(d.r, 2), b))

NDivHalfEven(a, b) == CHOOSE q \in {NDivRound(d, b) : d \in {NDivMod(a, b)}} : TRUE

(***************************************************************************)
(* Python int with a sign: [neg, mag].                                     *)
(***************************************************************************)
IntOf(neg, mag) == [neg |-> neg /\ mag /= <<>>, mag |-> mag]

(***************************************************************************)
(* Python float (IEEE-754 binary64, finite): [neg, m, e] is                *)
(* (-1)^neg * m * 2^e with 2^52 <= m < 2^53, or m = <<>> for zero.         *)
(* The amounts of this SDK are far from the subnormal and overflow ranges, *)
(* which are not modelled.                                                 *)
(***************************************************************************)
Two52 == NMulPow2(<<1>>, 52)
Two53 == NMulPow2(<<1>>, 53)

\* bring n/d into [2^52, 2^53) by doubling n (e falls) or d (e rises);
\* lo = d * 2^52
RECURSIVE FScaleUp(_, _, _)
FScaleUp(n, lo, e) ==
  IF NLt(NMulSmall(n, 8192), lo) THEN FScaleUp(NMulSmall(n, 8192), lo, e - 13)
  ELSE IF NLt(n, lo) THEN FScaleUp(NMulSmall(n, 2), lo, e - 1)
  ELSE [n |-> n, e |-> e]

RECURSIVE FScaleDown(_, _, _)
FScaleDown(n, d, e) ==
  IF NLe(NMulPow2(d, 66), n) THEN FScaleDown(n, NMulSmall(d, 8192), e + 13)
  ELSE IF NLe(NMulPow2(d, 53), n) THEN FScaleDown(n, NMulSmall(d, 2), e + 1)
  ELSE [d |-> d, e |-> e]

\* the binary64 nearest to n/d (round half to even), as [m, e]
FRoundPack(q, e) ==
  IF q = Two53 THEN [m |-> Two52, e |-> e + 1] ELSE [m |-> q, e |-> e]

FRoundUp(up, d) == FRoundPack(NDivHalfEven(up.n, d), up.e)

FRoundDown(n, dn) ==
  CHOOSE r \in {FRoundUp(up, dn.d) :
                   up \in {FScaleUp(n, NMulPow2(dn.d, 52), dn.e)}} : TRUE

FRound(n, d) ==
  IF n = <<>> THEN [m |-> <<>>, e |-> 0]
  ELSE CHOOSE r \in {FRoundDown(n, dn) : dn \in {FScaleDown(n, d, 0)}} : TRUE

FloatOf(neg, r) == [neg |-> neg /\ r.m /= <<>>, m |-> r.m, e |-> r.e]
Float0 == FloatOf(FALSE, FRound(<<>>, <<1>>))

\* float(n) for a model-checker integer n
FloatFromInt(n) ==
  FloatOf(n < 0, FRound(NFromInt(IF n < 0 THEN -n ELSE n), <<1>>))

\* comparison of magnitudes, then of signed floats: -1, 0, 1
FCmpMag(x, y) ==
  IF x.m = <<>> THEN (IF y.m = <<>> THEN 0 ELSE -1)
  ELSE IF y.m = <<>> THEN 1
  ELSE IF x.e < y.e THEN -1
  ELSE IF x.e > y.e THEN 1
  ELSE NCmp(x.m, y.m)

FCmp(x, y) ==
  IF x.neg /\ ~y.neg THEN -1
  ELSE IF ~x.neg /\ y.neg THEN 1
  ELSE IF x.neg THEN FCmpMag(y, x)
  ELSE FCmpMag(x, y)

FLt(x, y) == FCmp(x, y) < 0
FGe(x, y) == FCmp(x, y) >= 0
FGt(x, y) == FCmp(x, y) > 0

\* x * k for a small non-negative integer k, correctly rounded
FMulSmall(x, k) ==
  FloatOf(x.neg, FRound(NMulPow2(NMulSmall(x.m, k), IF x.e >= 0 THEN x.e ELSE 0),
                        NMulPow2(<<1>>, IF x.e >= 0 THEN 0 ELSE -x.e)))

\* x * 0.5 (exact)
FHalf(x) == IF x.m = <<>> THEN x ELSE [x EXCEPT !.e = x.e - 1]

\* n * 2^e for a natural n, correctly rounded
FScaled(n, e) ==
  FRound(NMulPow2(n, IF e >= 0 THEN e ELSE 0),
         NMulPow2(<<1>>, IF e >= 0 THEN 0 ELSE -e))

\* x - y for floats x >= y >= 0, correctly rounded
FSubAt(x, y, e) ==
  FloatOf(FALSE, FScaled(NSub(NMulPow2(x.m, x.e - e), NMulPow2(y.m, y.e - e)), e))

FSub(x, y) ==
  IF y.m = <<>> THEN x ELSE FSubAt(x, y, IF x.e < y.e THEN x.e ELSE y.e)

\* x * y, correctly rounded
FMulPack(x, y, r) == [neg |-> x.neg /= y.neg, m |-> r.m, e |-> r.e + x.e + y.e]

FMul(x, y) ==
  IF x.m = <<>> \/ y.m = <<>> THEN Float0
  ELSE CHOOSE p \in {FMulPack(x, y, r) : r \in {FRound(NMul(x.m, y.m), <<1>>)}} : TRUE

\* a / b for Python ints a >= 0, b > 0 (true division, correctly rounded)
IntTrueDiv(a, b) == FloatOf(FALSE, FRound(a, b))

(***************************************************************************)
(* decimal.Decimal, finite: [neg, coef, exp] is (-1)^neg * coef * 10^exp.  *)
(***************************************************************************)
DecOf(neg, coef, exp) == [neg |-> neg, coef |-> coef, exp |-> exp]

\* float(d) for a Decimal d, and the float a decimal literal denotes
FloatOfDec(d) ==
  FloatOf(d.neg, FRound(NMulPow10(d.coef, IF d.exp >= 0 THEN d.exp ELSE 0),
                        NMulPow10(<<1>>, IF d.exp >= 0 THEN 0 ELSE -d.exp)))

(***************************************************************************)
(* str(x) of a float: the shortest decimal that rounds back to x, the      *)
(* closest to x among those of that length (at most 17 digits).  Every     *)
(* quantity is scaled to an integer: Dn is x, H half the gap to the next   *)
(* float and U one unit of the 17-digit decimal 10^(-t), all times the     *)
(* same factor.                                                            *)
(***************************************************************************)
ReprScale(x, t) ==
  IF x.e < 0
  THEN [Dn |-> NMulPow10(NMulSmall(x.m, 2), t),
        H  |-> NMulPow10(<<1>>, t),
        U  |-> NMulPow2(<<1>>, 1 - x.e)]
  ELSE IF t >= 0
  THEN [Dn |-> NMulPow10(NMulPow2(x.m, x.e + 1), t),
        H  |-> NMulPow10(NMulPow2(<<1>>, x.e), t),
        U  |-> <<2>>]
  ELSE [Dn |-> NMulPow2(x.m, x.e + 1),
        H  |-> NMulPow2(<<1>>, x.e),
        U  |-> NMulPow10(<<2>>, -t)]

\* the t for which floor(x * 10^t) has exactly 17 digits
\* floor(x * 10^t)
ReprFloor(sc) == NDivMod(sc.Dn, sc.U).q

RECURSIVE ReprExp(_, _)
ReprExpStep(x, t, nd) == IF nd = 17 THEN t ELSE ReprExp(x, t + 17 - nd)

ReprExp(x, t) == ReprExpStep(x, t, NDigits(ReprFloor(ReprScale(x, t))))

\* does the decimal c * 10^(-t) round to x ?
ReprGap(x, sc, cn) ==
  NCmp(NMulSmall(NDist(cn, sc.Dn), IF NLt(cn, sc.Dn) /\ x.m = Two52 THEN 2 ELSE 1),
       sc.H)

ReprWithin(x, cmp) == cmp < 0 \/ (cmp = 0 /\ ~NIsOdd(x.m))

ReprRounds(x, sc, c) == ReprWithin(x, ReprGap(x, sc, NMul(c, sc.U)))

\* the n-digit decimals just below and just above x, as multiples of 10^(-t)
ReprLow(c17, n) == NMulPow10(NDivPow10(c17, 17 - n), 17 - n)
ReprHigh(low, n) == NAdd(low, NMulPow10(<<1>>, 17 - n))
ReprCandidates(low, n) == <<low, ReprHigh(low, n)>>

\* which of the two candidates round to x (zero is not a candidate)
ReprOk(x, sc, cs) == [i \in 1..2 |-> cs[i] /= <<>> /\ ReprRounds(x, sc, cs[i])]

\* is there a decimal of n significant digits that rounds to x ?
ReprFits(x, sc, c17, n) ==
  \E ok \in {ReprOk(x, sc, ReprCandidates(ReprLow(c17, n), n))} : ok[1] \/ ok[2]

\* the least number of significant digits with which a decimal rounds to x
\* (a decimal of more digits fits when one of fewer digits does)
ReprLen(x, sc, c17) ==
  CHOOSE j \in 1..17 : /\ ReprFits(x, sc, c17, j)
                       /\ (j = 1 \/ ~ReprFits(x, sc, c17, j - 1))

\* the nearer of the two candidates that round to x, the even one on a tie
ReprPick(cs, ok, near, odd) ==
  IF ok[1] /\ (~ok[2] \/ near < 0 \/ (near = 0 /\ ~odd)) THEN cs[1] ELSE cs[2]

ReprNearer(x, sc, cs, n) ==
  ReprPick(cs, ReprOk(x, sc, cs),
           NCmp(NDist(NMul(cs[1], sc.U), sc.Dn), NDist(NMul(cs[2], sc.U), sc.Dn)),
           NIsOdd(NDivPow10(cs[1], 17 - n)))

ReprShortest(x, sc, c17, n) ==
  CHOOSE c \in {ReprNearer(x, sc, cs, n) :
                   cs \in {ReprCandidates(ReprLow(c17, n), n)}} : TRUE

\* the shortest decimal that rounds to x, the nearer of the two candidates
ReprDigits(x, sc, c17) ==
  CHOOSE c \in {ReprShortest(x, sc, c17, n) : n \in {ReprLen(x, sc, c17)}} : TRUE

\* Decimal(str(x))
DecimalOfScale(x, t, sc) ==
  CHOOSE d \in {DecOf(x.neg, ReprDigits(x, sc, c17), -t) :
                   c17 \in {ReprFloor(sc)}} : TRUE

DecimalOfExp(x, t) ==
  CHOOSE d \in {DecimalOfScale(x, t, sc) : sc \in {ReprScale(x, t)}} : TRUE

DecimalOfStr(x) ==
  IF x.m = <<>> THEN DecOf(x.neg, <<>>, 0)
  ELSE CHOOSE d \in {DecimalOfExp(x, t) : t \in {ReprExp(x, 0)}} : TRUE

\* Decimal arithmetic rounds its results to the context precision, 28
\* significant digits by default (round half to even)
DecRoundBy(d, over) ==
  IF over <= 0 THEN d
  ELSE DecOf(d.neg, NDivHalfEven(d.coef, NMulPow10(<<1>>, over)), d.exp + over)

DecRound(d) == DecRoundBy(d, NDigits(d.coef) - 28)

\* d * Decimal(10 ** k), before rounding
DecMulPow10(d, k) == DecOf(d.neg, NMulPow10(d.coef, k), d.exp)

\* int(d): truncation towards zero
IntOfDec(d) ==
  IF d.exp >= 0 THEN IntOf(d.neg, NMulPow10(d.coef, d.exp))
  ELSE IntOf(d.neg, NDivPow10(d.coef, -d.exp))

\* round(x, 2) of a float: the exact value of x, to the nearest hundredth
\* (half to even), as a float again
Round2(x) ==
  IF x.e >= 0 THEN x
  ELSE LET q == NDivHalfEven(NMulSmall(x.m, 100), NMulPow2(<<1>>, -x.e))
       IN  FloatOf(x.neg, FRound(q, <<100>>))

(***************************************************************************)
(* InsurancePool: unit conversion (insurance.py)                           *)
(***************************************************************************)
USDC_DECIMALS == 6

\* int(Decimal(str(amount)) * Decimal(10 ** USDC_DECIMALS))
_to_usdc_units(amount) ==
  CHOOSE u \in {IntOfDec(DecRound(DecMulPow10(d, USDC_DECIMALS))) :
                   d \in {DecimalOfStr(amount)}} : TRUE

\* float(Decimal(amount) / Decimal(10 ** USDC_DECIMALS))
_from_usdc_units(amount) ==
  FloatOfDec(DecRound(DecOf(amount.neg, amount.mag, -USDC_DECIMALS)))

(***************************************************************************)
(* State.  The SDK keeps no state of its own between calls; what persists  *)
(* is the external ledger.  One SDK call runs at a time (section 5).       *)
(***************************************************************************)
VARIABLES
  pc,        \* position of the SDK call in progress, "idle" when none
  call,      \* the locals of the call in progress
  ret,       \* what the last finished call returned or raised
  rpc,       \* the RPC interactions of the call in progress or just finished
  txs,       \* the transactions the node accepted, in order, with their status
  txCount,   \* eth.get_transaction_count(account): mined transactions
  registry,  \* the registry contract's record of the agent
  ops        \* number of SDK calls started

vars == <<pc, call, ret, rpc, txs, txCount, registry, ops>>

None == [op |-> "none"]

\* a float written as a decimal literal, and a ledger value written as its
\* groups of four decimal digits
Lit(neg, coef, exp) == FloatOfDec(DecOf(neg, NFromInt(coef), exp))
NLit(groups) == [i \in 1..Len(groups) |-> groups[Len(groups) + 1 - i]]

(***************************************************************************)
(* InsurancePool: the read-only operations (insurance.py)                  *)
(***************************************************************************)
\* get_pool_info with the ratio left as a fraction instead of a percentage
get_pool_info_ratio(total_reserves, total_coverage, available) ==
  LET utilization == IF NLt(<<>>, total_reserves)
                     THEN IntTrueDiv(total_coverage, total_reserves)
                     ELSE Float0
  IN  [total_reserves_usd     |-> _from_usdc_units(IntOf(FALSE, total_reserves)),
       total_coverage_usd     |-> _from_usdc_units(IntOf(FALSE, total_coverage)),
       available_capacity_usd |-> _from_usdc_units(IntOf(FALSE, available)),
       utilization_percent    |-> Round2(utilization)]

\* InsurancePool.get_pool_info, from the three values read
get_pool_info(total_reserves, total_coverage, available) ==
  LET utilization == IF NLt(<<>>, total_reserves)
                     THEN FMulSmall(IntTrueDiv(total_coverage, total_reserves), 100)
                     ELSE Float0
  IN  [total_reserves_usd     |-> _from_usdc_units(IntOf(FALSE, total_reserves)),
       total_coverage_usd     |-> _from_usdc_units(IntOf(FALSE, total_coverage)),
       available_capacity_usd |-> _from_usdc_units(IntOf(FALSE, available)),
       utilization_percent    |-> Round2(utilization)]

\* InsurancePool.get_agent_coverage_info, from the tuple getAgentInfo returns
get_agent_coverage_info(info) ==
  [staked_amount_usd      |-> _from_usdc_units(IntOf(FALSE, info[1])),
   privilege_level        |-> info[2],
   active_coverage_usd    |-> _from_usdc_units(IntOf(FALSE, info[3])),
   available_coverage_usd |-> _from_usdc_units(IntOf(FALSE, info[4])),
   can_request_coverage   |-> info[5]]

\* is_covered with a strict comparison against the amount
is_covered_strict(info, amount) ==
  LET cov == get_agent_coverage_info(info)
  IN  IF ~cov.can_request_coverage THEN FALSE
      ELSE IF amount /= <<>> THEN FGt(cov.available_coverage_usd, amount[1])
      ELSE FGt(cov.available_coverage_usd, Float0)

\* InsurancePool.is_covered; amount is <<>> for None, <<x>> for the float x
is_covered(info, amount) ==
  LET cov == get_agent_coverage_info(info)
  IN  IF ~cov.can_request_coverage THEN FALSE
      ELSE IF amount /= <<>> THEN FGe(cov.available_coverage_usd, amount[1])
      ELSE FGt(cov.available_coverage_usd, Float0)

(***************************************************************************)
(* The pure and read-only operations, applied to inputs drawn from the     *)
(* sets below (specification SpecConv).  The SDK is stateless, so one      *)
(* application from the initial state covers every later one.              *)
(***************************************************************************)
\* ledger values: 0, 1 unit, cents, dollars, and values beyond 2^53 units
UnitInputs ==
  { <<>>, NFromInt(1), NFromInt(10000), NFromInt(999999), NFromInt(1000000),
    NFromInt(12345678), NFromInt(100000000), NFromInt(2147483647),
    NLit(<<1000, 0, 0, 1>>), NLit(<<8589, 9345, 9200, 1>>),
    NLit(<<9007, 1992, 5474, 993>>), NLit(<<1, 0, 0, 0, 0, 7>>) }

\* amounts with at most 6 decimal places
RepresentableInputs ==
  { Lit(FALSE, 0, 0), Lit(FALSE, 1, -6), Lit(FALSE, 1, -2), Lit(FALSE, 1, -1),
    Lit(FALSE, 99999999, -6), Lit(FALSE, 100, 0), Lit(FALSE, 2505, -1),
    Lit(FALSE, 123456789, -6), Lit(FALSE, 1000000000, 0),
    FloatOfDec(DecOf(FALSE, NLit(<<8589, 9345, 9200, 1>>), -6)) }

\* negative amounts, and amounts with more than 6 decimal places
AmountInputs ==
  RepresentableInputs \cup
  { Lit(TRUE, 1, 0), Lit(TRUE, 1, -6), Lit(TRUE, 1005, -1), Lit(TRUE, 1, -7),
    Lit(FALSE, 1, -7), Lit(FALSE, 1234567, -7), Lit(FALSE, 19999999, -7) }

ReserveInputs ==
  { <<>>, NFromInt(1), NFromInt(3), NFromInt(32), NFromInt(800),
    NFromInt(1000000), NLit(<<90, 481, 5366, 4272>>) }

CoverageInputs ==
  { <<>>, NFromInt(1), NFromInt(7), NFromInt(25), NFromInt(1000000),
    NLit(<<33, 3043, 963, 2731>>) }

CoveredInputs ==
  { <<>>, NFromInt(1), NFromInt(99999999), NFromInt(100000000), NFromInt(100000001) }

OptAmountInputs ==
  { <<>>, <<Lit(FALSE, 0, 0)>>, <<Lit(FALSE, 100, 0)>>,
    <<Lit(FALSE, 100000001, -6)>>, <<Lit(TRUE, 1, 0)>> }

ConvToUnits ==
  /\ pc = "idle" /\ ret = None
  /\ \E x \in AmountInputs :
       ret' = [op |-> "_to_usdc_units", amount |-> x,
               status |-> "ok", value |-> _to_usdc_units(x)]
  /\ UNCHANGED <<pc, call, rpc, txs, txCount, registry, ops>>

ConvFromTo ==
  /\ pc = "idle" /\ ret = None
  /\ \E x \in RepresentableInputs :
       ret' = [op |-> "from_to", usd |-> x, units |-> _to_usdc_units(x),
               back |-> _from_usdc_units(_to_usdc_units(x))]
  /\ UNCHANGED <<pc, call, rpc, txs, txCount, registry, ops>>

ConvToFrom ==
  /\ pc = "idle" /\ ret = None
  /\ \E k \in UnitInputs :
       ret' = [op |-> "to_from", units |-> IntOf(FALSE, k),
               usd |-> _from_usdc_units(IntOf(FALSE, k)),
               back |-> _to_usdc_units(_from_usdc_units(IntOf(FALSE, k)))]
  /\ UNCHANGED <<pc, call, rpc, txs, txCount, registry, ops>>

GetPoolInfo ==
  /\ pc = "idle" /\ ret = None
  /\ \E r \in ReserveInputs, c \in CoverageInputs, a \in {<<>>, NFromInt(500000)} :
       ret' = [op |-> "get_pool_info", total_reserves |-> r,
               total_coverage |-> c, available |-> a,
               value |-> get_pool_info(r, c, a)]
  /\ UNCHANGED <<pc, call, rpc, txs, txCount, registry, ops>>

IsCovered ==
  /\ pc = "idle" /\ ret = None
  /\ \E avail \in CoveredInputs, can \in BOOLEAN, amount \in OptAmountInputs :
       LET info == <<NFromInt(500000000), 1, <<>>, avail, can>>
       IN  ret' = [op |-> "is_covered", info |-> info, amount |-> amount,
                   value |-> is_covered(info, amount)]
  /\ UNCHANGED <<pc, call, rpc, txs, txCount, registry, ops>>

InitConv ==
  /\ pc = "idle" /\ call = None /\ ret = None /\ rpc = <<>>
  /\ txs = <<>> /\ txCount = 0 /\ ops = 0
  /\ registry = [immunized |-> FALSE, threat_level |-> 0]

NextConv == ConvToUnits \/ ConvFromTo \/ ConvToFrom \/ GetPoolInfo \/ IsCovered

SpecConv == InitConv /\ [][NextConv]_vars

(***************************************************************************)
(* Properties of the conversions and read-only operations (SpecConv)       *)
(***************************************************************************)
\* the number of hundredths in a float that is a multiple of 0.01
FHundredths(u) ==
  IF u.m = <<>> THEN <<>>
  ELSE IF u.e >= 0 THEN NMulPow2(NMulSmall(u.m, 100), u.e)
  ELSE NDivHalfEven(NMulSmall(u.m, 100), NMulPow2(<<1>>, -u.e))

\* C4: _to_usdc_units fails with an invalid-amount error for every negative
\* amount instead of returning an integer.
C4_NegativeAmountRejected ==
  (ret.op = "_to_usdc_units" /\ ret.amount.neg) => ret.status = "error"

\* C5: for every non-negative amount with at most 6 decimal places,
\* _from_usdc_units(_to_usdc_units(x)) = x, and for every non-negative
\* integer k, _to_usdc_units(_from_usdc_units(k)) = k.
C5_RoundTrip ==
  /\ ret.op = "from_to" => ret.back = ret.usd
  /\ ret.op = "to_from" => ret.back = ret.units

\* C6 as stated: utilization_percent is 0 when total_reserves is 0, and
\* otherwise the exact ratio 100 * total_coverage / total_reserves rounded to
\* the nearest hundredth (whichever way a tie is broken).
C6_ExactRounding ==
  ret.op = "get_pool_info" =>
    LET u == ret.value.utilization_percent
        q == FHundredths(u)
        r == ret.total_reserves
        c == ret.total_coverage
    IN  IF r = <<>> THEN u = Float0
        ELSE /\ u = FloatOf(FALSE, FRound(q, <<100>>))
             /\ NLe(NMulSmall(NDist(NMul(q, r), NMulPow10(c, 4)), 2), r)

\* C6 amended: utilization_percent is 0 when total_reserves is 0, and
\* otherwise a multiple of 0.01 within 0.005 + (100 c / r) * 2^-51 of the
\* exact ratio 100 c / r: the double-precision product (c / r) * 100 rounded
\* to 2 decimal places.
C6_UtilizationRounded ==
  ret.op = "get_pool_info" =>
    LET u == ret.value.utilization_percent
        q == FHundredths(u)
        r == ret.total_reserves
        c == ret.total_coverage
    IN  IF r = <<>> THEN u = Float0
        ELSE /\ u = FloatOf(FALSE, FRound(q, <<100>>))
             /\ NLe(NMulPow2(NDist(NMul(q, r), NMulPow10(c, 4)), 52),
                    NAdd(NMulPow2(r, 51), NMulSmall(c, 20000)))

\* 1 / 32 of the reserves covered: 3.125 %, returned as 3.12
C6_Witness ==
  /\ ret.op = "get_pool_info"
  /\ ret.total_reserves = NFromInt(32) /\ ret.total_coverage = NFromInt(1)
  /\ ret.value.utilization_percent = Lit(FALSE, 312, -2)

\* C7: is_covered is false whenever can_request_coverage is false; otherwise
\* with an amount it is true iff available_coverage_usd >= amount, and
\* without one iff available_coverage_usd > 0.
C7_IsCovered ==
  ret.op = "is_covered" =>
    LET avail == _from_usdc_units(IntOf(FALSE, ret.info[4]))
    IN  ret.value =
          IF ~ret.info[5] THEN FALSE
          ELSE IF ret.amount = <<>> THEN FCmp(avail, Float0) > 0
          ELSE FCmp(avail, ret.amount[1]) >= 0

\* exactly $100 of available coverage covers an amount of 100
C7_Witness ==
  /\ ret.op = "is_covered" /\ ret.info[5]
  /\ ret.info[4] = NFromInt(100000000)
  /\ ret.amount = <<Lit(FALSE, 100, 0)>>
  /\ ret.value = TRUE

(***************************************************************************)
(* LobSecRegistry.get_agent_status (registry.py).  The dictionary is built *)
(* from four separate contract reads, in the order Python evaluates them:  *)
(* isImmunized, getThreatLevel, then for "safe" getThreatLevel again and,  *)
(* when that reading is below 50, isImmunized again.  The registry is an   *)
(* external contract: it may change between any two reads.                 *)
(***************************************************************************)
\* the threat levels the registry moves to while the SDK is observed
ThreatChanges == {49, 50}

\* the locals of a call that reads the status; changed records whether the
\* registry changed since the call began, and at_start what it was then
\* (kept for get_agent_status only)
NoRecord == [immunized |-> FALSE, threat_level |-> 0]

StatusCall(op, at_start) ==
  [op |-> op, at_start |-> at_start, changed |-> FALSE,
   immunized |-> FALSE, threat_level |-> 0,
   safe_threat_level |-> 0, safe_immunized |-> FALSE,
   coverage_amount |-> Float0, duration_days |-> 0, base_premium |-> Float0]

\* the comparison of get_agent_status with the bound included
safe_threat_inclusive(threat_level) == threat_level <= 50

\* self.get_threat_level(agent) < 50
safe_threat(threat_level) == threat_level < 50

\* the dictionary get_agent_status returns, from the readings c
get_agent_status(c) ==
  [address      |-> "agent",
   immunized    |-> c.immunized,
   threat_level |-> c.threat_level,
   safe         |-> safe_threat(c.safe_threat_level) /\ c.safe_immunized]

StatusBegin ==
  /\ pc = "idle"
  /\ pc' = "is_immunized"
  /\ call' = StatusCall("get_agent_status", registry)
  /\ ret' = None /\ rpc' = <<>>
  /\ UNCHANGED <<txs, txCount, registry, ops>>

\* "immunized": self.is_immunized(agent)
ReadImmunized ==
  /\ pc = "is_immunized"
  /\ call' = [call EXCEPT !.immunized = registry.immunized]
  /\ rpc' = Append(rpc, [fn |-> "isImmunized", args |-> <<>>])
  /\ pc' = "get_threat_level"
  /\ UNCHANGED <<ret, txs, txCount, registry, ops>>

\* "threat_level": self.get_threat_level(agent)
ReadThreatLevel ==
  /\ pc = "get_threat_level"
  /\ call' = [call EXCEPT !.threat_level = registry.threat_level]
  /\ rpc' = Append(rpc, [fn |-> "getThreatLevel", args |-> <<>>])
  /\ pc' = "safe_get_threat_level"
  /\ UNCHANGED <<ret, txs, txCount, registry, ops>>

\* "safe": self.get_threat_level(agent) < 50 and ...
ReadSafeThreatLevel ==
  /\ pc = "safe_get_threat_level"
  /\ call' = [call EXCEPT !.safe_threat_level = registry.threat_level]
  /\ rpc' = Append(rpc, [fn |-> "getThreatLevel", args |-> <<>>])
  /\ pc' = IF safe_threat(registry.threat_level)
           THEN "safe_is_immunized" ELSE "status_done"
  /\ UNCHANGED <<ret, txs, txCount, registry, ops>>

\* ... and self.is_immunized(agent)
ReadSafeImmunized ==
  /\ pc = "safe_is_immunized"
  /\ call' = [call EXCEPT !.safe_immunized = registry.immunized]
  /\ rpc' = Append(rpc, [fn |-> "isImmunized", args |-> <<>>])
  /\ pc' = "status_done"
  /\ UNCHANGED <<ret, txs, txCount, registry, ops>>

StatusReturn ==
  /\ pc = "status_done" /\ call.op = "get_agent_status"
  /\ ret' = [op |-> "get_agent_status", status |-> "ok",
             value |-> get_agent_status(call),
             at_start |-> call.at_start, changed |-> call.changed]
  /\ pc' = "idle" /\ call' = None
  /\ UNCHANGED <<rpc, txs, txCount, registry, ops>>

\* a contract read raises (node unreachable, call reverted): the exception
\* leaves the SDK call
ReadFails ==
  /\ pc \in {"is_immunized", "get_threat_level", "safe_get_threat_level",
             "safe_is_immunized"}
  /\ ret' = [op |-> call.op, status |-> "error", error |-> "rpc"]
  /\ pc' = "idle" /\ call' = None
  /\ UNCHANGED <<rpc, txs, txCount, registry, ops>>

\* the environment: the registry's owner changes the agent's record
RegistryChange ==
  /\ \E t \in ThreatChanges, i \in BOOLEAN :
       /\ registry' = [immunized |-> i, threat_level |-> t]
       /\ registry' /= registry
  /\ call' = IF pc = "idle" THEN call ELSE [call EXCEPT !.changed = TRUE]
  /\ UNCHANGED <<pc, ret, rpc, txs, txCount, ops>>

InitStatus ==
  /\ pc = "idle" /\ call = None /\ ret = None /\ rpc = <<>>
  /\ txs = <<>> /\ txCount = 0 /\ ops = 0
  /\ registry \in [immunized : BOOLEAN, threat_level : 0..255]

NextStatus ==
  \/ StatusBegin \/ ReadImmunized \/ ReadThreatLevel \/ ReadSafeThreatLevel
  \/ ReadSafeImmunized \/ StatusReturn \/ ReadFails \/ RegistryChange

SpecStatus == InitStatus /\ [][NextStatus]_vars

(***************************************************************************)
(* Properties of get_agent_status (SpecStatus)                             *)
(***************************************************************************)
\* C8: when the agent's registry record does not change during the call,
\* get_agent_status returns the record's immunized and threat_level and
\* safe = TRUE iff threat_level < 50 and immunized, for every threat level
\* in 0..255.
C8_SafeWhenUnchanged ==
  (ret.op = "get_agent_status" /\ ret.status = "ok" /\ ~ret.changed) =>
    /\ ret.value.immunized = ret.at_start.immunized
    /\ ret.value.threat_level = ret.at_start.threat_level
    /\ ret.value.safe = (ret.at_start.threat_level < 50 /\ ret.at_start.immunized)

\* an immunized agent at threat level 49 is safe ...
C8_Witness ==
  /\ ret.op = "get_agent_status" /\ ret.status = "ok" /\ ~ret.changed
  /\ ret.at_start = [immunized |-> TRUE, threat_level |-> 49]
  /\ ret.value.safe

\* ... and at threat level 50 is not
C8_WitnessBoundary ==
  /\ ret.op = "get_agent_status" /\ ret.status = "ok" /\ ~ret.changed
  /\ ret.at_start = [immunized |-> TRUE, threat_level |-> 50]
  /\ ~ret.value.safe

\* C9: the record get_agent_status returns always satisfies
\* safe = (threat_level < 50 and immunized), even when the registry changes
\* while the call is in progress.
C9_RecordConsistent ==
  (ret.op = "get_agent_status" /\ ret.status = "ok") =>
    ret.value.safe = (ret.value.threat_level < 50 /\ ret.value.immunized)

(***************************************************************************)
(* Agent.get_premium_quote (agent.py): calculate_premium at risk score     *)
(* 1000 (one contract read, insurance.py), then registry_status(), which   *)
(* is get_agent_status with its four reads, then the quote.                *)
(***************************************************************************)
\* self.pool.functions.calculatePremium(amount_units, duration_seconds,
\* risk_score).call(), with duration_seconds = duration_days * 24 * 60 * 60
calculatePremium(amount_units, duration_days, risk_score) ==
  [fn   |-> "calculatePremium",
   args |-> <<amount_units, duration_days * 24 * 60 * 60, risk_score>>]

\* the read calculate_premium sends to the pool contract
calculate_premium(amount, duration_days, risk_score) ==
  calculatePremium(_to_usdc_units(amount), duration_days, risk_score)

\* discount = 0.5 if registry_status.get("immunized") else 0.0
quote_discount(registry_status) ==
  IF registry_status.immunized THEN Lit(FALSE, 5, -1) ELSE Float0

\* the quote with the discount left out of the final premium
quote_undiscounted(coverage_amount, duration_days, base_premium, registry_status, discount) ==
  [coverage_amount_usd |-> coverage_amount,
   duration_days       |-> duration_days,
   base_premium_usd    |-> Round2(base_premium),
   discount_percent    |-> FMulSmall(discount, 100),
   final_premium_usd   |-> Round2(base_premium),
   immunized           |-> registry_status.immunized]

\* the dictionary get_premium_quote returns
quote(coverage_amount, duration_days, base_premium, registry_status, discount) ==
  [coverage_amount_usd |-> coverage_amount,
   duration_days       |-> duration_days,
   base_premium_usd    |-> Round2(base_premium),
   discount_percent    |-> FMulSmall(discount, 100),
   final_premium_usd   |-> Round2(FMul(base_premium, FSub(FloatFromInt(1), discount))),
   immunized           |-> registry_status.immunized]

get_premium_quote(coverage_amount, duration_days, base_premium, registry_status) ==
  quote(coverage_amount, duration_days, base_premium, registry_status,
        quote_discount(registry_status))

\* coverage amounts and durations asked for, and the premiums (in ledger
\* units) the pool contract answers with
QuoteAmounts == { Lit(FALSE, 1000, 0), Lit(FALSE, 2505, -1) }
QuoteDays == { 30 }
PremiumInputs ==
  { NFromInt(5), NFromInt(30000), NFromInt(12345678), NFromInt(100000000) }

\* base_premium = self.insurance.calculate_premium(..., risk_score=1000)
QuoteBegin ==
  /\ pc = "idle"
  /\ \E amount \in QuoteAmounts, days \in QuoteDays, premium \in PremiumInputs :
       /\ call' = [StatusCall("get_premium_quote", NoRecord) EXCEPT
                     !.coverage_amount = amount, !.duration_days = days,
                     !.base_premium = _from_usdc_units(IntOf(FALSE, premium))]
       /\ rpc' = <<calculate_premium(amount, days, 1000)>>
  /\ pc' = "is_immunized"
  /\ ret' = None
  /\ UNCHANGED <<txs, txCount, registry, ops>>

QuoteReturn ==
  /\ pc = "status_done" /\ call.op = "get_premium_quote"
  /\ ret' = [op |-> "get_premium_quote", status |-> "ok",
             value |-> get_premium_quote(call.coverage_amount, call.duration_days,
                                         call.base_premium, get_agent_status(call)),
             base_premium |-> call.base_premium, changed |-> call.changed]
  /\ pc' = "idle" /\ call' = None
  /\ UNCHANGED <<rpc, txs, txCount, registry, ops>>

InitQuote ==
  /\ pc = "idle" /\ call = None /\ ret = None /\ rpc = <<>>
  /\ txs = <<>> /\ txCount = 0 /\ ops = 0
  /\ registry \in [immunized : BOOLEAN, threat_level : ThreatChanges]

NextQuote ==
  \/ QuoteBegin \/ ReadImmunized \/ ReadThreatLevel \/ ReadSafeThreatLevel
  \/ ReadSafeImmunized \/ QuoteReturn \/ ReadFails \/ RegistryChange

SpecQuote == InitQuote /\ [][NextQuote]_vars

(***************************************************************************)
(* Properties of get_premium_quote (SpecQuote)                             *)
(***************************************************************************)
\* C10 as stated: the returned final premium equals the returned base
\* premium times (1 - discount_percent / 100), i.e. half of it when the
\* returned immunized flag is true and all of it otherwise.
C10_FinalIsDiscountedBase ==
  (ret.op = "get_premium_quote" /\ ret.status = "ok") =>
    LET base  == FHundredths(ret.value.base_premium_usd)
        final == FHundredths(ret.value.final_premium_usd)
    IN  IF ret.value.immunized THEN NMulSmall(final, 2) = base ELSE final = base

\* C10 amended: the only premium evaluation of the call is at risk score
\* 1000; discount_percent is 50 iff the returned immunized flag is true and
\* 0 otherwise, whether or not the registry changed during the call; the
\* returned base premium is the premium rounded to 2 decimal places and the
\* returned final premium is premium * (1 - discount_percent / 100) rounded
\* to 2 decimal places, where premium is the unrounded base premium.
C10_Quote ==
  (ret.op = "get_premium_quote" /\ ret.status = "ok") =>
    /\ rpc[1].fn = "calculatePremium" /\ rpc[1].args[3] = 1000
    /\ \A i \in 2..Len(rpc) : rpc[i].fn /= "calculatePremium"
    /\ ret.value.discount_percent =
         IF ret.value.immunized THEN FloatFromInt(50) ELSE Float0
    /\ ret.value.base_premium_usd = Round2(ret.base_premium)
    /\ ret.value.final_premium_usd =
         Round2(IF ret.value.immunized THEN FHalf(ret.base_premium)
                ELSE ret.base_premium)

\* a premium of $100 quoted to an immunized agent whose registry record
\* changed during the call: discount 50, final premium $50
C10_Witness ==
  /\ ret.op = "get_premium_quote" /\ ret.status = "ok" /\ ret.changed
  /\ ret.value.immunized
  /\ ret.value.base_premium_usd = FloatFromInt(100)
  /\ ret.value.discount_percent = FloatFromInt(50)
  /\ ret.value.final_premium_usd = FloatFromInt(50)

(***************************************************************************)
(* The approve-then-act flows (insurance.py, agent.py) against the node.   *)
(* A write is built with the nonce eth.get_transaction_count returns (the  *)
(* number of mined transactions of the account), signed locally, and sent; *)
(* the node accepts it when no transaction with that nonce is mined or     *)
(* pending.  Between the two writes the SDK waits for the receipt of the   *)
(* first; it does not look at the receipt's status.  Any step may raise,   *)
(* and nothing catches the exception.                                      *)
(***************************************************************************)
\* SDK calls started in one run of the model
MaxOps == 2

NoTx == [fn |-> "none", args |-> <<>>, nonce |-> 0]

\* an amount with the ledger units the flow converts it to
Converted(amounts) ==
  { [amount |-> a, amount_units |-> _to_usdc_units(a)] : a \in amounts }

AgentStakeInputs ==
  Converted({ Lit(TRUE, 5, 0), Lit(FALSE, 9999, -2), Lit(FALSE, 100, 0),
              Lit(FALSE, 2505, -1) })
StakeInputs == Converted({ Float0, Lit(FALSE, 9999, -2), Lit(FALSE, 100, 0) })
PurchaseInputs == Converted({ Lit(FALSE, 1000, 0) })
PurchaseDays == { 30 }
PurchaseRisks == { 500, 1000 }
PurchasePremiums == { NFromInt(30000), NFromInt(100000000) }

\* the locals of stake_for_insurance after the conversion: the approve for
\* the staking contract and the stakeAsAgent write
stake_for_insurance(in, via) ==
  [op |-> "stake_for_insurance", via |-> via,
   amount |-> in.amount, amount_units |-> in.amount_units,
   approve |-> [fn |-> "approve", args |-> <<"staking_address", in.amount_units>>],
   act     |-> [fn |-> "stakeAsAgent", args |-> <<in.amount_units>>],
   read    |-> [fn |-> "none", args |-> <<>>],
   tx |-> NoTx, approve_hash |-> 0]

\* purchase_coverage with the premium evaluated at the default risk score
purchase_coverage_default_premium(in, duration_days, risk_score, via) ==
  [op |-> "purchase_coverage", via |-> via,
   amount |-> in.amount, amount_units |-> in.amount_units,
   approve |-> [fn |-> "approve", args |-> <<"pool_address", IntOf(FALSE, <<>>)>>],
   act     |-> [fn |-> "createCoverage",
                args |-> <<"agent", "protocol", in.amount_units,
                           duration_days * 24 * 60 * 60, risk_score>>],
   read    |-> calculatePremium(in.amount_units, duration_days, 1000),
   tx |-> NoTx, approve_hash |-> 0]

\* the locals of purchase_coverage after the conversions: the premium read,
\* and the createCoverage write; the approve is for the premium read
purchase_coverage(in, duration_days, risk_score, via) ==
  [op |-> "purchase_coverage", via |-> via,
   amount |-> in.amount, amount_units |-> in.amount_units,
   approve |-> [fn |-> "approve", args |-> <<"pool_address", IntOf(FALSE, <<>>)>>],
   act     |-> [fn |-> "createCoverage",
                args |-> <<"agent", "protocol", in.amount_units,
                           duration_days * 24 * 60 * 60, risk_score>>],
   read    |-> calculatePremium(in.amount_units, duration_days, risk_score),
   tx |-> NoTx, approve_hash |-> 0]

\* the 100 of Agent.stake, as the float Python compares usd with
MinimumStake == FloatFromInt(100)

\* Agent.stake with the floor included in the rejected amounts
stake_rejected_inclusive(usd) == ~FGt(usd, MinimumStake)

\* if usd < 100: raise ValueError("Minimum stake is $100 USDC")
stake_rejected(usd) == FLt(usd, MinimumStake)

\* stake_for_insurance with the floor of Agent.stake in it
stake_for_insurance_entry_floor(in) ==
  IF stake_rejected(in.amount) THEN "rejected" ELSE "approve_build"

\* where stake_for_insurance goes once the amount is converted: it checks
\* nothing and builds the approve
stake_for_insurance_entry(in) == "approve_build"

\* a failed wait answered by a second approve
on_exception_retry(step) == IF step = "approve_wait" THEN "approve_build" ELSE "idle"

\* a failed step whose exception is swallowed when it is the wait
on_exception_continue(step) == IF step = "approve_wait" THEN "act_build" ELSE "idle"

\* where the call goes when a step raises: out of the call
on_exception(step) == "idle"

\* the node takes a transaction whose nonce is neither used nor pending
NonceFree(nonce) ==
  nonce >= txCount /\ \A i \in 1..Len(txs) : txs[i].nonce /= nonce

\* what a step asks of the network, for the log of the call
StepRequest(step) ==
  CASE step = "premium"      -> call.read.fn
    [] step = "approve_build" -> "get_transaction_count"
    [] step = "act_build"     -> "get_transaction_count"
    [] step = "approve_send"  -> "send_raw_transaction"
    [] step = "act_send"      -> "send_raw_transaction"
    [] step = "approve_wait"  -> "wait_for_transaction_receipt"
    [] OTHER                  -> "none"

\* what the step passes with its request: a send the signed transaction,
\* the premium read its arguments
StepArgs(step) ==
  CASE step \in {"approve_send", "act_send"} ->
         <<call.tx.fn, call.tx.args, call.tx.nonce>>
    [] step = "premium" -> call.read.args
    [] OTHER -> <<>>

\* InsurancePool.stake_for_insurance called directly
StakeForInsurance ==
  /\ pc = "idle" /\ ops < MaxOps
  /\ \E in \in StakeInputs :
       /\ call' = stake_for_insurance(in, "InsurancePool")
       /\ pc' = stake_for_insurance_entry(in)
  /\ ret' = None /\ rpc' = <<>> /\ ops' = ops + 1
  /\ UNCHANGED <<txs, txCount, registry>>

\* Agent.stake: the minimum, then stake_for_insurance
AgentStake ==
  /\ pc = "idle" /\ ops < MaxOps
  /\ \E in \in AgentStakeInputs :
       IF stake_rejected(in.amount)
       THEN /\ ret' = [op |-> "stake", via |-> "Agent", amount |-> in.amount,
                       status |-> "error", error |-> "ValueError", at |-> "idle"]
            /\ pc' = "idle" /\ call' = None
       ELSE /\ call' = stake_for_insurance(in, "Agent")
            /\ pc' = stake_for_insurance_entry(in) /\ ret' = None
  /\ rpc' = <<>> /\ ops' = ops + 1
  /\ UNCHANGED <<txs, txCount, registry>>

\* InsurancePool.purchase_coverage up to the premium read
PurchaseCoverage ==
  /\ pc = "idle" /\ ops < MaxOps
  /\ \E in \in PurchaseInputs, d \in PurchaseDays, r \in PurchaseRisks :
       call' = purchase_coverage(in, d, r, "InsurancePool")
  /\ pc' = "premium"
  /\ ret' = None /\ rpc' = <<>> /\ ops' = ops + 1
  /\ UNCHANGED <<txs, txCount, registry>>

\* premium_units = self.pool.functions.calculatePremium(...).call()
PremiumRead ==
  /\ pc = "premium"
  /\ \E premium \in PurchasePremiums :
       call' = [call EXCEPT !.approve.args[2] = IntOf(FALSE, premium)]
  /\ rpc' = Append(rpc, [fn |-> call.read.fn, args |-> call.read.args, ok |-> TRUE,
                         value |-> call'.approve.args[2]])
  /\ pc' = "approve_build"
  /\ UNCHANGED <<ret, txs, txCount, registry, ops>>

\* the second write of a flow built with the nonce kept from the first
BuildTxStoredNonce(next, write) ==
  /\ call' = [call EXCEPT !.tx = [fn |-> write.fn, args |-> write.args,
                                  nonce |-> IF call.tx = NoTx THEN txCount
                                            ELSE call.tx.nonce]]
  /\ rpc' = Append(rpc, [fn |-> "get_transaction_count", args |-> <<>>, ok |-> TRUE,
                         value |-> txCount])
  /\ pc' = next
  /\ UNCHANGED <<ret, txs, txCount, registry, ops>>

\* build_transaction({... 'nonce': get_transaction_count(account.address)})
BuildTx(next, write) ==
  /\ call' = [call EXCEPT !.tx = [fn |-> write.fn, args |-> write.args,
                                  nonce |-> txCount]]
  /\ rpc' = Append(rpc, [fn |-> "get_transaction_count", args |-> <<>>, ok |-> TRUE,
                         value |-> txCount])
  /\ pc' = next
  /\ UNCHANGED <<ret, txs, txCount, registry, ops>>

ApproveBuild ==
  /\ pc = "approve_build"
  /\ BuildTx("approve_sign", call.approve)

ActBuild ==
  /\ pc = "act_build"
  /\ BuildTx("act_sign", call.act)

\* w3.eth.account.sign_transaction(tx, private_key): local
SignTx(next) ==
  /\ pc' = next
  /\ UNCHANGED <<call, ret, rpc, txs, txCount, registry, ops>>

ApproveSign ==
  /\ pc = "approve_sign"
  /\ SignTx("approve_send")

ActSign ==
  /\ pc = "act_sign"
  /\ SignTx("act_send")

\* send_raw_transaction: the node takes the transaction; it is pending
SendTx(step) ==
  /\ pc = step /\ NonceFree(call.tx.nonce)
  /\ txs' = Append(txs, [fn |-> call.tx.fn, args |-> call.tx.args,
                         nonce |-> call.tx.nonce, status |-> "pending",
                         via |-> call.via])
  /\ rpc' = Append(rpc, [fn |-> "send_raw_transaction",
                         args |-> <<call.tx.fn, call.tx.args, call.tx.nonce>>,
                         ok |-> TRUE])

ApproveSend ==
  /\ SendTx("approve_send")
  /\ call' = [call EXCEPT !.approve_hash = Len(txs) + 1]
  /\ pc' = "approve_wait"
  /\ UNCHANGED <<ret, txCount, registry, ops>>

\* the second write, and return tx_hash.hex()
ActSend ==
  /\ SendTx("act_send")
  /\ ret' = [op |-> call.op, via |-> call.via, amount |-> call.amount,
             status |-> "ok", value |-> Len(txs) + 1, at |-> "act_send"]
  /\ pc' = "idle" /\ call' = None
  /\ UNCHANGED <<txCount, registry, ops>>

\* wait_for_transaction_receipt(approve_hash) returns the receipt once the
\* transaction is mined, whatever its status
ApproveWait ==
  /\ pc = "approve_wait"
  /\ txs[call.approve_hash].status /= "pending"
  /\ rpc' = Append(rpc, [fn |-> "wait_for_transaction_receipt",
                         args |-> <<call.approve_hash>>, ok |-> TRUE])
  /\ pc' = "act_build"
  /\ UNCHANGED <<call, ret, txs, txCount, registry, ops>>

\* a step raises: the read or the node fails, the nonce is taken, the
\* signing fails, the wait times out
StepRaises ==
  /\ pc \in {"premium", "approve_build", "approve_sign", "approve_send",
             "approve_wait", "act_build", "act_sign", "act_send"}
  /\ rpc' = IF StepRequest(pc) = "none" THEN rpc
            ELSE Append(rpc, [fn |-> StepRequest(pc), args |-> StepArgs(pc), ok |-> FALSE])
  /\ pc' = on_exception(pc)
  /\ IF pc' = "idle"
     THEN /\ ret' = [op |-> call.op, via |-> call.via, amount |-> call.amount,
                     status |-> "error", error |-> "exception", at |-> pc]
          /\ call' = None
     ELSE UNCHANGED <<call, ret>>
  /\ UNCHANGED <<txs, txCount, registry, ops>>

\* the environment: the chain mines the account's next pending transaction,
\* which succeeds or reverts
Mine ==
  /\ \E i \in 1..Len(txs), status \in {"success", "reverted"} :
       /\ txs[i].status = "pending" /\ txs[i].nonce = txCount
       /\ txs' = [txs EXCEPT ![i].status = status]
  /\ txCount' = txCount + 1
  /\ UNCHANGED <<pc, call, ret, rpc, registry, ops>>

Init ==
  /\ pc = "idle" /\ call = None /\ ret = None /\ rpc = <<>>
  /\ txs = <<>> /\ txCount = 0 /\ ops = 0
  /\ registry \in [immunized : BOOLEAN, threat_level : {0}]

Next ==
  \/ StakeForInsurance \/ AgentStake \/ PurchaseCoverage \/ PremiumRead
  \/ ApproveBuild \/ ApproveSign \/ ApproveSend \/ ApproveWait
  \/ ActBuild \/ ActSign \/ ActSend \/ StepRaises \/ Mine

Spec == Init /\ [][Next]_vars

(***************************************************************************)
(* Properties of the flows (Spec).  rpc is the log of the call in progress *)
(* or, when none is, of the call that ended last.                          *)
(***************************************************************************)
LogOp == IF pc = "idle" THEN ret.op ELSE call.op

\* the positions in the log where the node took a write of function fn
Sent(fn) ==
  { i \in 1..Len(rpc) : /\ rpc[i].fn = "send_raw_transaction" /\ rpc[i].ok
                        /\ rpc[i].args[1] = fn }

\* the positions in the log of the waits that returned / that raised
Waited(ok) ==
  { i \in 1..Len(rpc) : rpc[i].fn = "wait_for_transaction_receipt" /\ rpc[i].ok = ok }

\* C1: in purchase_coverage the approve write is submitted, and its receipt
\* waited for, before the createCoverage write is; and no createCoverage
\* write is submitted in a call whose wait for the approve receipt failed.
C1_ApproveBeforeCreate ==
  LogOp = "purchase_coverage" =>
    /\ \A j \in Sent("createCoverage") :
         \E i \in Sent("approve"), k \in Waited(TRUE) : i < k /\ k < j
    /\ Waited(FALSE) /= {} => Sent("createCoverage") = {}

\* purchase_coverage returned the hash of its createCoverage write
C1_Witness ==
  /\ pc = "idle" /\ ret.op = "purchase_coverage" /\ ret.status = "ok"
  /\ Sent("approve") /= {} /\ Sent("createCoverage") /= {}

\* C2: in stake_for_insurance the stakeAsAgent write is submitted only
\* after the approve transaction was submitted and confirmed, and never
\* when the approve step failed, a failure being also an approve
\* transaction that was mined but did not succeed.
C2_StakeAfterApproveSucceeded ==
  LogOp = "stake_for_insurance" =>
    \A j \in Sent("stakeAsAgent") :
      \E i \in Sent("approve"), k \in Waited(TRUE) :
        /\ i < k /\ k < j
        /\ \E t \in 1..Len(txs) :
             /\ txs[t].fn = "approve" /\ txs[t].nonce = rpc[i].args[3]
             /\ txs[t].status = "success"

\* C3: Agent.stake fails with ValueError (the invalid-amount error) for
\* every amount below 100, having interacted with the network in no way,
\* and does not reject the amount 100.
C3_MinimumStake ==
  /\ (pc /= "idle" /\ call.via = "Agent" /\ call.op = "stake_for_insurance") =>
       ~FLt(call.amount, MinimumStake)
  /\ (ret.op \in {"stake", "stake_for_insurance"} /\ ret.via = "Agent") =>
       IF FLt(ret.amount, MinimumStake)
       THEN ret.status = "error" /\ ret.error = "ValueError" /\ rpc = <<>>
       ELSE ret.op = "stake_for_insurance"

\* Agent.stake(100) went on to the staking write
C3_Witness ==
  /\ pc = "idle" /\ ret.op = "stake_for_insurance" /\ ret.via = "Agent"
  /\ ret.status = "ok" /\ ret.amount = MinimumStake
  /\ Sent("stakeAsAgent") /= {}

\* Agent.stake(99.99) was rejected
C3_WitnessRejected ==
  /\ ret.op = "stake" /\ ret.via = "Agent" /\ ret.error = "ValueError"
  /\ ret.amount = Lit(FALSE, 9999, -2)

(***************************************************************************)
(* The Agent facade and the registry writes (agent.py, registry.py).       *)
(* register_agent, immunize_agent, unstake_request and unstake_execute     *)
(* build one write with the nonce get_transaction_count returns, sign it,  *)
(* send it and return its hash; they wait for no receipt.                  *)
(* Agent.purchase_coverage reads registry_status(), picks the risk score   *)
(* and calls InsurancePool.purchase_coverage with it.                      *)
(***************************************************************************)
NoWrite == [fn |-> "none", args |-> <<>>]

\* the locals of an operation of one write
single_write(op, via, write) ==
  [op |-> op, via |-> via, amount |-> Float0, amount_units |-> IntOf(FALSE, <<>>),
   approve |-> NoWrite, act |-> write, read |-> NoWrite,
   tx |-> NoTx, approve_hash |-> 0]

\* self.contract.functions.registerAgent(agent)
register_agent(via) ==
  single_write("register_agent", via, [fn |-> "registerAgent", args |-> <<"agent">>])

\* self.contract.functions.immunize(agent)
immunize_agent(via) ==
  single_write("immunize_agent", via, [fn |-> "immunize", args |-> <<"agent">>])

\* self.insurance.staking.functions.requestUnstake()
unstake_request(via) ==
  single_write("unstake_request", via, [fn |-> "requestUnstake", args |-> <<>>])

\* self.insurance.staking.functions.executeUnstake()
unstake_execute(via) ==
  single_write("unstake_execute", via, [fn |-> "executeUnstake", args |-> <<>>])

\* Agent.immunize going on to the registry's immunize write
immunize_by_immunize_agent(via) == immunize_agent(via)

\* Agent.immunize: self.registry.register_agent(self.address, self._private_key)
immunize(via) == register_agent(via)

\* the risk score left at the default of InsurancePool.purchase_coverage
risk_score_default(registry_status) == 1000

\* risk_score = 500 if registry_status.get("immunized") else 1000
risk_score(registry_status) == IF registry_status.immunized THEN 500 ELSE 1000

\* the operations of one write, with unstake_execute kept for the agent
\* whose requestUnstake is mined
SingleWritesPhased ==
  { immunize("Agent"), unstake_request("Agent"),
    register_agent("LobSecRegistry"), immunize_agent("LobSecRegistry") }
  \cup { c \in {unstake_execute("Agent")} :
           \E t \in 1..Len(txs) :
             txs[t].fn = "requestUnstake" /\ txs[t].status = "success" }

\* the operations of one write the model starts, with the caller of each
SingleWrites ==
  { immunize("Agent"), unstake_request("Agent"), unstake_execute("Agent"),
    register_agent("LobSecRegistry"), immunize_agent("LobSecRegistry") }

\* an operation of one write begins: its first step is the build
SingleWrite ==
  /\ pc = "idle" /\ ops < MaxOps
  /\ \E c \in SingleWrites : call' = c
  /\ pc' = "act_build"
  /\ ret' = None /\ rpc' = <<>> /\ ops' = ops + 1
  /\ UNCHANGED <<txs, txCount, registry>>

\* Agent.purchase_coverage begins: registry_status() comes first
AgentPurchaseCoverage ==
  /\ pc = "idle" /\ ops < MaxOps
  /\ \E in \in PurchaseInputs, d \in PurchaseDays :
       call' = [op |-> "purchase_coverage", via |-> "Agent",
                amount |-> in.amount, amount_units |-> in.amount_units,
                duration_days |-> d]
  /\ pc' = "registry_status"
  /\ ret' = None /\ rpc' = <<>> /\ ops' = ops + 1
  /\ UNCHANGED <<txs, txCount, registry>>

\* registry_status = self.registry_status(), then the risk score and the
\* call of InsurancePool.purchase_coverage.  Of the four reads of
\* get_agent_status only the first, is_immunized, is used here.
RegistryStatus ==
  /\ pc = "registry_status"
  /\ call' = purchase_coverage(
               [amount |-> call.amount, amount_units |-> call.amount_units],
               call.duration_days,
               risk_score(get_agent_status(
                 [immunized |-> registry.immunized,
                  threat_level |-> registry.threat_level,
                  safe_threat_level |-> registry.threat_level,
                  safe_immunized |-> registry.immunized])),
               "Agent")
  /\ rpc' = Append(rpc, [fn |-> "isImmunized", args |-> <<"agent">>, ok |-> TRUE,
                         value |-> registry.immunized])
  /\ pc' = "premium"
  /\ UNCHANGED <<ret, txs, txCount, registry, ops>>

\* a read of registry_status() raises
RegistryStatusRaises ==
  /\ pc = "registry_status"
  /\ rpc' = Append(rpc, [fn |-> "isImmunized", args |-> <<"agent">>, ok |-> FALSE])
  /\ ret' = [op |-> call.op, via |-> call.via, amount |-> call.amount,
             status |-> "error", error |-> "exception", at |-> pc]
  /\ pc' = "idle" /\ call' = None
  /\ UNCHANGED <<txs, txCount, registry, ops>>

\* the environment: the registry's owner immunizes the agent or revokes it
ImmunizedChange ==
  /\ registry' = [registry EXCEPT !.immunized = ~registry.immunized]
  /\ UNCHANGED <<pc, call, ret, rpc, txs, txCount, ops>>

InitAgent ==
  /\ pc = "idle" /\ call = None /\ ret = None /\ rpc = <<>>
  /\ txs = <<>> /\ txCount = 0 /\ ops = 0
  /\ registry \in [immunized : BOOLEAN, threat_level : {0}]

NextAgent ==
  \/ SingleWrite \/ AgentStake \/ AgentPurchaseCoverage
  \/ RegistryStatus \/ RegistryStatusRaises \/ PremiumRead
  \/ ApproveBuild \/ ApproveSign \/ ApproveSend \/ ApproveWait
  \/ ActBuild \/ ActSign \/ ActSend \/ StepRaises \/ Mine \/ ImmunizedChange

SpecAgent == InitAgent /\ [][NextAgent]_vars

\* who called the operation of the log
LogVia ==
  CASE pc /= "idle" -> call.via
    [] pc = "idle" /\ ret /= None -> ret.via
    [] OTHER -> "none"

\* the positions in the log of the requests fn, answered or not
Requests(fn) == { i \in 1..Len(rpc) : rpc[i].fn = fn }

\* the risk score Agent.purchase_coverage owes to the status it read
RiskOwed(immunized) == IF immunized THEN 500 ELSE 1000

\* C11: Agent.purchase_coverage passes the pool client risk score 500 when
\* the registry status it read at its start says immunized and 1000 when
\* not, and that one score is in the premium evaluation and in the
\* createCoverage write, whatever the registry says later.
C11_RiskScore ==
  (LogOp = "purchase_coverage" /\ LogVia = "Agent") =>
    \A s \in { i \in Requests("isImmunized") : rpc[i].ok } :
      /\ s = 1
      /\ \A i \in Requests("calculatePremium") :
           rpc[i].args[3] = RiskOwed(rpc[s].value)
      /\ \A i \in Requests("send_raw_transaction") :
           rpc[i].args[1] = "createCoverage" =>
             rpc[i].args[2][5] = RiskOwed(rpc[s].value)
      /\ pc \notin {"idle", "registry_status"} =>
           /\ call.read.args[3] = RiskOwed(rpc[s].value)
           /\ call.act.args[5] = RiskOwed(rpc[s].value)

\* Agent.purchase_coverage of an immunized agent sent createCoverage at
\* risk score 500 although the registry no longer says immunized
C11_Witness ==
  /\ pc = "idle" /\ ret.op = "purchase_coverage" /\ ret.via = "Agent"
  /\ ret.status = "ok" /\ ~registry.immunized
  /\ \E i \in Sent("createCoverage") : rpc[i].args[2][5] = 500
  /\ \E i \in Requests("calculatePremium") : rpc[i].args[3] = 500

FlowSteps ==
  {"premium", "approve_build", "approve_sign", "approve_send", "approve_wait",
   "act_build", "act_sign", "act_send"}

\* the amount the operation of the log was called with
LogAmount == IF pc = "idle" THEN ret.amount ELSE call.amount

\* C13: stake_for_insurance called directly enforces no minimum stake: it
\* rejects no amount below 100 (it ends in an error only when a step of the
\* flow raises), and the approve it submits, and the stakeAsAgent it
\* submits once the approve is confirmed, are for that amount.
C13_NoFloorInPool ==
  (LogOp = "stake_for_insurance" /\ LogVia = "InsurancePool") =>
    /\ pc /= "idle" => pc \in FlowSteps
    /\ (pc = "idle" /\ ret.status = "error") =>
         ret.error = "exception" /\ ret.at \in FlowSteps
    /\ \E in \in StakeInputs :
         /\ in.amount = LogAmount
         /\ \A i \in Requests("send_raw_transaction") :
              \/ rpc[i].args[1] = "approve"
                   /\ rpc[i].args[2] = <<"staking_address", in.amount_units>>
              \/ rpc[i].args[1] = "stakeAsAgent"
                   /\ rpc[i].args[2] = <<in.amount_units>>
    /\ (pc = "idle" /\ ret.status = "ok") =>
         Sent("approve") /= {} /\ Sent("stakeAsAgent") /= {}

\* stake_for_insurance(99.99) called directly sent its approve for
\* 99990000 units and, the approve confirmed, its stakeAsAgent
C13_Witness ==
  /\ pc = "idle" /\ ret.op = "stake_for_insurance" /\ ret.via = "InsurancePool"
  /\ ret.status = "ok" /\ FLt(ret.amount, MinimumStake)
  /\ ret.amount = Lit(FALSE, 9999, -2)
  /\ \E i \in Sent("approve"), j \in Sent("stakeAsAgent"), k \in Waited(TRUE) :
       /\ i < k /\ k < j
       /\ rpc[i].args[2][2] = IntOf(FALSE, NLit(<<9999, 0>>))
       /\ rpc[j].args[2][1] = IntOf(FALSE, NLit(<<9999, 0>>))

\* stake_for_insurance(0.0) called directly sent an approve for 0 units
C13_WitnessZero ==
  /\ LogOp = "stake_for_insurance" /\ LogVia = "InsurancePool"
  /\ LogAmount = Float0
  /\ \E i \in Sent("approve") : rpc[i].args[2][2] = IntOf(FALSE, <<>>)

\* C14: a two-step flow whose wait for the approve receipt fails or times
\* out ends there in an error, with no transaction hash returned, and the
\* approve is the one write it has submitted: nothing is sent after the
\* failed wait, neither the dependent write nor a retry or a revocation.
C14_AbortLeavesApproveOnly ==
  Waited(FALSE) /= {} =>
    /\ LogOp \in {"stake_for_insurance", "purchase_coverage"}
    /\ pc = "idle" /\ ret.status = "error" /\ ret.at = "approve_wait"
    /\ Waited(FALSE) = {Len(rpc)}
    /\ Requests("send_raw_transaction") = Sent("approve")
    /\ Cardinality(Sent("approve")) = 1
    /\ \A i \in Sent("approve") :
         \E t \in 1..Len(txs) :
           /\ txs[t].fn = "approve" /\ txs[t].nonce = rpc[i].args[3]
           /\ txs[t].args = rpc[i].args[2]

\* stake_for_insurance ended in the error of its wait, the approve sent
C14_Witness ==
  /\ pc = "idle" /\ ret.op = "stake_for_insurance" /\ ret.status = "error"
  /\ ret.at = "approve_wait" /\ Waited(FALSE) /= {} /\ Sent("approve") /= {}

\* purchase_coverage ended in the error of its wait, the approve sent
C14_WitnessPurchase ==
  /\ pc = "idle" /\ ret.op = "purchase_coverage" /\ ret.status = "error"
  /\ ret.at = "approve_wait" /\ Waited(FALSE) /= {} /\ Sent("approve") /= {}

(***************************************************************************)
(* Properties of the Agent facade (SpecAgent).                             *)
(***************************************************************************)
\* the write of an unstake operation
UnstakeWrite(op) ==
  IF op = "unstake_request" THEN "requestUnstake" ELSE "executeUnstake"

\* C15: the unstake operations keep no phase.  Whatever was called before
\* and whatever the chain holds, unstake_request and unstake_execute can
\* both be called; each submits one write, requestUnstake or
\* executeUnstake, after no request but the nonce read, and returns the
\* hash as soon as the node took the write, waiting for no receipt.
C15_UnstakeNoPhase ==
  /\ (pc = "idle" /\ ops < MaxOps) =>
       /\ ENABLED (SingleWrite /\ call' = unstake_request("Agent"))
       /\ ENABLED (SingleWrite /\ call' = unstake_execute("Agent"))
  /\ (LogVia = "Agent" /\ LogOp \in {"unstake_request", "unstake_execute"}) =>
       /\ \A i \in 1..Len(rpc) :
            rpc[i].fn \in {"get_transaction_count", "send_raw_transaction"}
       /\ \A i \in Requests("send_raw_transaction") :
            /\ rpc[i].args[1] = UnstakeWrite(LogOp) /\ rpc[i].args[2] = <<>>
            /\ i = Len(rpc)
       /\ Cardinality(Requests("send_raw_transaction")) <= 1
       /\ (pc = "idle" /\ ret.status = "ok") =>
            /\ Sent(UnstakeWrite(LogOp)) = {Len(rpc)}
            /\ ret.value \in 1..Len(txs)
            /\ txs[ret.value].fn = UnstakeWrite(LogOp)

\* unstake_execute returned the hash of its executeUnstake, still pending,
\* and no requestUnstake was ever sent
C15_Witness ==
  /\ pc = "idle" /\ ret.op = "unstake_execute" /\ ret.status = "ok"
  /\ Sent("executeUnstake") /= {}
  /\ txs[ret.value].status = "pending"
  /\ \A t \in 1..Len(txs) : txs[t].fn /= "requestUnstake"

\* unstake_request after unstake_execute, and unstake_execute twice
C15_WitnessOrder ==
  /\ pc = "idle" /\ ret.op = "unstake_request" /\ ret.status = "ok"
  /\ Len(txs) = 2 /\ txs[1].fn = "executeUnstake"

C15_WitnessTwice ==
  /\ pc = "idle" /\ ret.op = "unstake_execute" /\ ret.status = "ok"
  /\ Len(txs) = 2 /\ txs[1].fn = "executeUnstake" /\ txs[2].fn = "executeUnstake"

\* the transactions the node holds, pending or mined, that carry the nonce
Carrying(nonce) == { t \in 1..Len(txs) : txs[t].nonce = nonce }

\* C16: with the operations of the credential called one after the other,
\* each returned before the next begins, no two transactions the SDK
\* submits carry the same nonce, also when an operation that waits for no
\* receipt is followed by another write before its transaction is mined:
\* a transaction handed to send_raw_transaction carries a nonce that no
\* other submitted transaction carries.
C16_NoncesUnique ==
  \A i \in Requests("send_raw_transaction") :
    Cardinality(Carrying(rpc[i].args[3])) = IF rpc[i].ok THEN 1 ELSE 0

\* C17: every write is built with the nonce the operation has just read
\* from the ledger: the request before each send is the operation's
\* get_transaction_count, and the transaction carries the count it
\* returned.  In a two-step flow the nonce of the dependent write is read
\* after the receipt of the approve was obtained, and, nobody else using
\* the credential, it is the nonce of the approve plus one.
C17_FreshNonce ==
  /\ \A j \in Requests("send_raw_transaction") :
       /\ j > 1
       /\ rpc[j - 1].fn = "get_transaction_count" /\ rpc[j - 1].ok
       /\ rpc[j].args[3] = rpc[j - 1].value
  /\ \A i \in Sent("approve"), j \in Requests("send_raw_transaction") :
       j > i =>
         /\ \E k \in Waited(TRUE) : i < k /\ k < j - 1
         /\ rpc[j].args[3] = rpc[i].args[3] + 1
         /\ rpc[j].args[1] \in {"stakeAsAgent", "createCoverage"}

\* a flow called after another write returned the hash of its dependent
\* write, sent with nonce 2 after the approve with nonce 1
C17_Witness ==
  /\ pc = "idle" /\ ret.op \in {"stake_for_insurance", "purchase_coverage"}
  /\ ret.status = "ok"
  /\ \E i \in Sent("approve"), j \in Sent("stakeAsAgent") \cup Sent("createCoverage") :
       rpc[i].args[3] = 1 /\ rpc[j].args[3] = 2

(***************************************************************************)
(* The approval and the write it is for (Spec).                            *)
(***************************************************************************)
\* duration_seconds = duration_days * 24 * 60 * 60
SecondsOfDays == { d * 86400 : d \in PurchaseDays }

\* C18: in each two-step flow the approval matches the dependent write.
\* stake_for_insurance approves, for the staking contract, the ledger units
\* of its amount, the units it then passes to stakeAsAgent.
\* purchase_coverage approves, for the pool contract, the premium that the
\* calculatePremium read returned for the triple (amount units, days *
\* 86400, risk score), the triple it then passes to createCoverage.
C18_ApprovalMatches ==
  /\ LogOp = "stake_for_insurance" =>
       \E in \in StakeInputs \cup AgentStakeInputs :
         /\ in.amount = LogAmount
         /\ \A i \in Requests("send_raw_transaction") :
              \/ rpc[i].args[1] = "approve"
                   /\ rpc[i].args[2] = <<"staking_address", in.amount_units>>
              \/ rpc[i].args[1] = "stakeAsAgent"
                   /\ rpc[i].args[2] = <<in.amount_units>>
                   /\ \E a \in Sent("approve") :
                        a < i /\ rpc[a].args[2][2] = rpc[i].args[2][1]
  /\ LogOp = "purchase_coverage" =>
       \E in \in PurchaseInputs :
         /\ in.amount = LogAmount
         /\ Cardinality(Requests("calculatePremium")) <= 1
         /\ \A r \in Requests("calculatePremium") :
              /\ rpc[r].args[1] = in.amount_units
              /\ rpc[r].args[2] \in SecondsOfDays
         /\ \A i \in Requests("send_raw_transaction") :
              \E r \in Requests("calculatePremium") :
                /\ r < i /\ rpc[r].ok
                /\ \/ rpc[i].args[1] = "approve"
                        /\ rpc[i].args[2] = <<"pool_address", rpc[r].value>>
                   \/ rpc[i].args[1] = "createCoverage"
                        /\ rpc[i].args[2] = <<"agent", "protocol">> \o rpc[r].args
                        /\ \E a \in Sent("approve") :
                             a < i /\ rpc[a].args[2][2] = rpc[r].value

\* purchase_coverage at risk score 500 returned the hash of its
\* createCoverage, the approve being of the premium 0.03 read for it
C18_Witness ==
  /\ pc = "idle" /\ ret.op = "purchase_coverage" /\ ret.status = "ok"
  /\ \E r \in Requests("calculatePremium"), a \in Sent("approve"),
        c \in Sent("createCoverage") :
       /\ rpc[r].args[3] = 500 /\ rpc[r].value = IntOf(FALSE, NFromInt(30000))
       /\ rpc[a].args[2][2] = rpc[r].value
       /\ rpc[c].args[2][5] = 500 /\ rpc[c].args[2][4] = 2592000

\* stake_for_insurance returned the hash of its stakeAsAgent of the units
\* it had approved
C18_WitnessStake ==
  /\ pc = "idle" /\ ret.op = "stake_for_insurance" /\ ret.status = "ok"
  /\ \E a \in Sent("approve"), c \in Sent("stakeAsAgent") :
       /\ rpc[a].args[2] = <<"staking_address", rpc[c].args[2][1]>>
       /\ rpc[c].args[2][1] = IntOf(FALSE, NLit(<<1, 0, 0>>))

====
